---- MODULE Spec2Model ----
(***************************************************************************)
(* Model of icms.py: the poll / transform / forward loop that bridges the  *)
(* journal API to the Datadog ingestion endpoint.                          *)
(*                                                                         *)
(* Time is counted in ticks (TicksPerSecond per second) of UTC epoch time. *)
(* A formatted time string "%Y-%m-%dT%H:%M:%S" is represented by the count *)
(* of whole seconds of the local (offset-adjusted) time it denotes:        *)
(* formatting drops the sub-second part and the offset.                    *)
(***************************************************************************)
EXTENDS Integers, Sequences, FiniteSets, TLC

(* ---------------------------- bounds ----------------------------------- *)
MaxCycles == 2
MaxWork == 1
TicksPerSecond == 2

(* ------------------------ program constants ---------------------------- *)
SecondsPerMinute == 60
SecondsPerHour == 3600
DefaultStatus == 500
ErrorStatusFloor == 400
ErrorStatusCeil == 600

(* values the configuration file may hold *)
WindowMinutesValues == {1}
LoopIntervalValues == {59, 60}
TimezoneHoursValues == {8}
WriteToFileValues == BOOLEAN

VARIABLES
  WINDOW_MINUTES, LOOP_INTERVAL_SECONDS, TIMEZONE, WRITE_TO_FILE,
  clock, pc, cycle, sleeps,
  start_time, end_time, now_read, qc_list, token, query_url, result,
  transformed_data, status_code, exc,
  calls, files, issued, prev_window, LOCAL_ZONE

config == <<WINDOW_MINUTES, LOOP_INTERVAL_SECONDS, TIMEZONE, WRITE_TO_FILE, LOCAL_ZONE>>
locals == <<start_time, end_time, now_read, qc_list, token, query_url, result,
            transformed_data, status_code>>
vars == <<WINDOW_MINUTES, LOOP_INTERVAL_SECONDS, TIMEZONE, WRITE_TO_FILE,
          clock, pc, cycle, sleeps,
          start_time, end_time, now_read, qc_list, token, query_url, result,
          transformed_data, status_code, exc,
          calls, files, issued, prev_window, LOCAL_ZONE>>

(* ------------------------------ time ----------------------------------- *)
\* datetime.now(TIMEZONE): the wall clock of the fixed offset, in ticks
now(tz) == clock + tz * SecondsPerHour * TicksPerSecond

\* strftime("%Y-%m-%dT%H:%M:%S"): second precision, no offset suffix
strftime(t) == t \div TicksPerSecond

\* variant: timedelta(seconds=m), the unit mistaken
timedelta_seconds(m) == m * TicksPerSecond

\* timedelta(minutes=m), in ticks
timedelta_minutes(m) == m * SecondsPerMinute * TicksPerSecond

\* variant: datetime.now() without the configured offset
get_time_range_utc(minutes, tz) ==
  LET end_t == now(0)
      start_t == end_t - timedelta_minutes(minutes)
  IN  [start_str |-> strftime(start_t), end_str |-> strftime(end_t)]

get_time_range(minutes, tz) ==
  LET end_t == now(tz)
      start_t == end_t - timedelta_minutes(minutes)
  IN  [start_str |-> strftime(start_t), end_str |-> strftime(end_t)]

(* ------------------------- JSON values --------------------------------- *)
\* A JSON value as Python sees it.  t is the Python type; a str is either
\* ordinary text (s: its characters) or text in the shape of a date-time,
\* "<Y>-<m>-<d>T<H>:<M>:<S>" (t = "dts", f: the six numbers written in it).
None == [t |-> "None", s |-> <<>>, n |-> 0, f |-> <<>>]
Str(chars) == [t |-> "str", s |-> chars, n |-> 0, f |-> <<>>]
Num(k) == [t |-> "int", s |-> <<>>, n |-> k, f |-> <<>>]
Dts(fields) == [t |-> "dts", s |-> <<>>, n |-> 0, f |-> fields]

IsStr(v) == v.t \in {"str", "dts"}

\* Python truthiness of a JSON value
Truthy(v) ==
  CASE v.t = "None" -> FALSE
    [] v.t = "int" -> v.n # 0
    [] v.t = "str" -> v.s # <<>>
    [] v.t = "dts" -> TRUE

(* --------------------------- exceptions -------------------------------- *)
NoExc == [cls |-> "none", has_response |-> FALSE, status |-> 0]
Raise(c) == [cls |-> c, has_response |-> FALSE, status |-> 0]
\* requests.exceptions.HTTPError raised by raise_for_status carries the response
HTTPError(status) == [cls |-> "HTTPError", has_response |-> TRUE, status |-> status]

RequestExceptionClasses == {"RequestException", "HTTPError", "ConnectionError",
                            "Timeout", "JSONDecodeError"}
ExceptionClasses == RequestExceptionClasses \cup
                    {"ValueError", "AttributeError", "TypeError", "OSError"}

(* ---------------------- str.replace('DOC:', '') ------------------------ *)
DOC_PREFIX == <<"D", "O", "C", ":">>

RECURSIVE str_replace(_, _)
\* str.replace(old, ''): one left-to-right pass over non-overlapping matches
str_replace(chars, old) ==
  IF Len(chars) < Len(old) THEN chars
  ELSE IF SubSeq(chars, 1, Len(old)) = old
       THEN str_replace(SubSeq(chars, Len(old) + 1, Len(chars)), old)
       ELSE <<Head(chars)>> \o str_replace(Tail(chars), old)

(* ------------- datetime.strptime(...) and .timestamp() ----------------- *)
IsLeap(y) == (y % 4 = 0 /\ y % 100 # 0) \/ y % 400 = 0

DaysInMonth(y, m) ==
  IF m = 2 THEN (IF IsLeap(y) THEN 29 ELSE 28)
  ELSE IF m \in {4, 6, 9, 11} THEN 30 ELSE 31

\* days from 1970-01-01 to the civil date y-m-d (proleptic Gregorian)
DaysFromCivil(y, m, d) ==
  LET yy == IF m <= 2 THEN y - 1 ELSE y
      era == yy \div 400
      yoe == yy - era * 400
      mp == (m + 9) % 12
      doy == (153 * mp + 2) \div 5 + d - 1
      doe == yoe * 365 + yoe \div 4 - yoe \div 100 + doy
  IN  era * 146097 + doe - 719468

\* strptime(v, "%Y-%m-%dT%H:%M:%S"): the exception it raises, or NoExc
strptime_exc(v) ==
  IF ~IsStr(v) THEN Raise("TypeError")
  ELSE IF v.t # "dts" \/ Len(v.f) # 6 THEN Raise("ValueError")
  ELSE IF /\ v.f[1] \in 1..9999
          /\ v.f[2] \in 1..12
          /\ v.f[3] \in 1..DaysInMonth(v.f[1], v.f[2])
          /\ v.f[4] \in 0..23
          /\ v.f[5] \in 0..59
          /\ v.f[6] \in 0..59
       THEN NoExc
       ELSE Raise("ValueError")

\* int(strptime(v, fmt).timestamp()): a naive datetime is read in the
\* process's local zone (local_hours east of UTC)
epoch_seconds(v, local_hours) ==
  DaysFromCivil(v.f[1], v.f[2], v.f[3]) * 86400
    + v.f[4] * SecondsPerHour + v.f[5] * SecondsPerMinute + v.f[6]
    - local_hours * SecondsPerHour

(* ------------------------ raw journal records -------------------------- *)
ScalarKeys == {"DATADOG_JOURNAL_ID", "DOC_NUMBER", "MESSAGE_ID", "MESSAGE_TYPE",
               "MESSAGE_DIRECTION", "RESPONSE_TIME", "STATUS", "REJECT_REASON",
               "HOST_NAME", "PUBLIC_HOST_NAME", "HOST_IP_ADDRESS",
               "PUBLIC_HOST_IP_ADDRESS"}
TimestampKeys == {"DAYTIME", "START_TIMESTAMPS", "END_TIMESTAMPS"}
TagKeys == {"hostname", "service"}
FieldNames == ScalarKeys \cup TimestampKeys

\* one entry of a record's 'attributes': no entry at all, an entry (a dict)
\* without a 'datavalue' key, or an entry {'datavalue': dv}
Absent == [kind |-> "absent", dv |-> None]
NoDatavalue == [kind |-> "nodv", dv |-> None]
Datavalue(v) == [kind |-> "dv", dv |-> v]

DD_HOST == Str(<<"h", "1">>)
DD_SERVICE == Str(<<"s", "v", "c">>)

\* attrs.get(name, {}).get('datavalue', default)
get_datavalue(attrs, name, default) ==
  IF attrs[name].kind = "dv" THEN attrs[name].dv ELSE default

\* lines 134-144: the three "if <ts>: record[KEY] = int(strptime(<ts>).timestamp())"
\* blocks, in source order; the first strptime that raises ends the call
RECURSIVE convert_timestamps(_, _, _, _)
convert_timestamps(attrs, keys, rec, local_hours) ==
  IF keys = <<>> THEN [exc |-> NoExc, ret |-> rec]
  ELSE LET k == Head(keys)
           v == get_datavalue(attrs, k, None)
       IN  IF ~Truthy(v) THEN convert_timestamps(attrs, Tail(keys), rec, local_hours)
           ELSE IF strptime_exc(v).cls # "none"
                THEN [exc |-> strptime_exc(v), ret |-> rec]
                ELSE convert_timestamps(attrs, Tail(keys),
                                        rec @@ (k :> Num(epoch_seconds(v, local_hours))),
                                        local_hours)

\* the body of the "for record in records" loop, lines 109-146
transform_record(record, local_hours) ==
  LET attrs == IF record.has_attributes THEN record.attributes
               ELSE [k \in FieldNames |-> Absent]
      doc == get_datavalue(attrs, "DOC_NUMBER", Str(<<>>))
      stripped == IF doc.t = "str" THEN Str(str_replace(doc.s, DOC_PREFIX)) ELSE doc
      projected == [k \in ScalarKeys \cup TagKeys |->
                      CASE k = "DOC_NUMBER" -> stripped
                        [] k = "hostname" -> DD_HOST
                        [] k = "service" -> DD_SERVICE
                        [] OTHER -> get_datavalue(attrs, k, None)]
  IN  IF ~IsStr(doc) THEN [exc |-> Raise("AttributeError"), ret |-> <<>>]
      ELSE convert_timestamps(attrs, <<"DAYTIME", "START_TIMESTAMPS", "END_TIMESTAMPS">>,
                              projected, local_hours)

RECURSIVE transform_loop(_, _, _, _)
transform_loop(records, i, transformed_records, local_hours) ==
  IF i > Len(records) THEN [exc |-> NoExc, ret |-> transformed_records]
  ELSE LET r == transform_record(records[i], local_hours)
       IN  IF r.exc.cls # "none" THEN [exc |-> r.exc, ret |-> <<>>]
           ELSE transform_loop(records, i + 1, Append(transformed_records, r.ret),
                               local_hours)

\* response_data: objects / journal say whether the key is absent, holds
\* null, or holds the dict / list
transform_response(response_data, local_hours) ==
  IF response_data.objects = "None" THEN [exc |-> Raise("AttributeError"), ret |-> <<>>]
  ELSE IF response_data.objects = "dict" /\ response_data.journal = "None"
       THEN [exc |-> Raise("TypeError"), ret |-> <<>>]
  ELSE LET records == IF response_data.objects = "dict" /\ response_data.journal = "list"
                      THEN response_data.records ELSE <<>>
       IN  transform_loop(records, 1, <<>>, local_hours)

(* ------------------------------ HTTP ----------------------------------- *)
\* What the peer does with one request: the transport fails (neterr names
\* the requests exception, no response exists) or a response arrives with a
\* status and a body.  body: "token" (JSON with a non-empty access_token),
\* "no_token" (JSON without one), "json" (a JSON payload), "not_json".
Response(status, body) == [neterr |-> "none", status |-> status, body |-> body]
NetworkFailure(c) == [neterr |-> c, status |-> 0, body |-> "none"]

NetworkFailures == {NetworkFailure("ConnectionError"), NetworkFailure("Timeout")}

\* Response.raise_for_status(): HTTPError for 4xx and 5xx, nothing otherwise
raise_for_status(resp) ==
  IF resp.status >= ErrorStatusFloor /\ resp.status < ErrorStatusCeil
  THEN HTTPError(resp.status) ELSE NoExc

\* variant: get_auth_token without response.raise_for_status()
get_auth_token_unchecked(resp, fresh) ==
  IF resp.neterr # "none" THEN [exc |-> Raise(resp.neterr), ret |-> 0]
  ELSE IF resp.body = "not_json" THEN [exc |-> Raise("JSONDecodeError"), ret |-> 0]
  ELSE IF resp.body # "token" THEN [exc |-> Raise("ValueError"), ret |-> 0]
  ELSE [exc |-> NoExc, ret |-> fresh]

\* get_auth_token: fresh is the access_token the endpoint put in the body
get_auth_token(resp, fresh) ==
  IF resp.neterr # "none" THEN [exc |-> Raise(resp.neterr), ret |-> 0]
  ELSE IF raise_for_status(resp).cls # "none"
       THEN [exc |-> raise_for_status(resp), ret |-> 0]
  ELSE IF resp.body = "not_json" THEN [exc |-> Raise("JSONDecodeError"), ret |-> 0]
  ELSE IF resp.body # "token" THEN [exc |-> Raise("ValueError"), ret |-> 0]
  ELSE [exc |-> NoExc, ret |-> fresh]

\* build_query_url: qa, stripmeta, then one qc per condition, in list order
NoCond == [field |-> "", op |-> "", value |-> 0]
build_query_url(qcs) ==
  <<[name |-> "qa", cond |-> NoCond], [name |-> "stripmeta", cond |-> NoCond]>>
    \o [i \in 1..Len(qcs) |-> [name |-> "qc", cond |-> qcs[i]]]

\* fetch_data: payload is the parsed body when the body is JSON
fetch_data(resp) ==
  IF resp.neterr # "none" THEN Raise(resp.neterr)
  ELSE IF raise_for_status(resp).cls # "none" THEN raise_for_status(resp)
  ELSE IF resp.body = "not_json" THEN Raise("JSONDecodeError")
  ELSE NoExc

\* "except requests.exceptions.RequestException as e" of send_to_datadog:
\* getattr(e.response, 'status_code', 500) if hasattr(e, 'response') else 500
\* (every RequestException has the attribute; it is None without a response)
status_of_failure(e) ==
  IF e.has_response THEN e.status ELSE DefaultStatus

\* variant: "except requests.exceptions.HTTPError" in place of RequestException
send_to_datadog_http_only(resp) ==
  LET raised == IF resp.neterr # "none" THEN Raise(resp.neterr)
                ELSE raise_for_status(resp)
  IN  IF raised.cls = "none" THEN [exc |-> NoExc, ret |-> resp.status]
      ELSE IF raised.cls = "HTTPError"
           THEN [exc |-> NoExc, ret |-> status_of_failure(raised)]
           ELSE [exc |-> raised, ret |-> 0]

send_to_datadog(resp) ==
  LET raised == IF resp.neterr # "none" THEN Raise(resp.neterr)
                ELSE raise_for_status(resp)
  IN  IF raised.cls = "none" THEN [exc |-> NoExc, ret |-> resp.status]
      ELSE IF raised.cls \in RequestExceptionClasses
           THEN [exc |-> NoExc, ret |-> status_of_failure(raised)]
           ELSE [exc |-> raised, ret |-> 0]

\* variant: "except requests.exceptions.RequestException as e" in the loop
caught_by_loop_requests_only(e) == e.cls \in RequestExceptionClasses

\* "except Exception as e" of the outer loop
caught_by_loop(e) == e.cls \in ExceptionClasses

(* --------------------------- environment ------------------------------- *)
TokenResponses ==
  NetworkFailures \cup
  {Response(st, b) : st \in {200, 304, 401}, b \in {"token", "no_token", "not_json"}}
FetchResponses ==
  NetworkFailures \cup {Response(st, b) : st \in {200, 500}, b \in {"json", "not_json"}}
ForwardResponses ==
  NetworkFailures \cup {Response(st, "json") : st \in {202, 403, 500}}

WellFormedTs == Dts(<<2024, 1, 1, 0, 0, 0>>)

\* a raw record with the entries of `absent` missing, those of `nodv` without
\* a datavalue, and the given values in the others
RawRecord(absent, nodv, id, doc, ts) ==
  [has_attributes |-> TRUE,
   attributes |-> [k \in FieldNames |->
     IF k \in absent THEN Absent
     ELSE IF k \in nodv THEN NoDatavalue
     ELSE Datavalue(CASE k = "DATADOG_JOURNAL_ID" -> Num(id)
                      [] k = "DOC_NUMBER" -> doc
                      [] k \in TimestampKeys -> ts[k]
                      [] OTHER -> Str(<<"x">>))]]

AllTs(v) == [k \in TimestampKeys |-> v]
GoodRecord(id) == RawRecord({}, {}, id, Str(DOC_PREFIX \o <<"1">>), AllTs(WellFormedTs))
Payload(records) == [objects |-> "dict", journal |-> "list", records |-> records]
NoPayload == [objects |-> "absent", journal |-> "absent", records |-> <<>>]

\* the payloads the journal API returns in the polling model
SamplePayloads ==
  { Payload(<<>>), NoPayload, Payload(<<GoodRecord(7)>>),
    Payload(<<GoodRecord(7),
              RawRecord({}, {}, 8, Str(<<"2">>), AllTs(Str(<<"x">>)))>>) }

(* ------------------------- the polling loop ---------------------------- *)
InitLocals ==
  /\ start_time = 0 /\ end_time = 0 /\ now_read = 0 /\ qc_list = <<>>
  /\ token = 0 /\ query_url = <<>> /\ result = NoPayload
  /\ transformed_data = <<>> /\ status_code = 0

Init ==
  /\ WINDOW_MINUTES \in WindowMinutesValues
  /\ LOOP_INTERVAL_SECONDS \in LoopIntervalValues
  /\ TIMEZONE \in TimezoneHoursValues
  /\ WRITE_TO_FILE \in WriteToFileValues
  /\ LOCAL_ZONE = 0
  /\ clock \in 0..(TicksPerSecond - 1)
  /\ pc = "loop" /\ cycle = 0 /\ sleeps = 0
  /\ InitLocals
  /\ exc = NoExc /\ calls = <<>> /\ files = {} /\ issued = 0
  /\ prev_window = [valid |-> FALSE, start |-> 0, end |-> 0, now |-> 0]

Call(kind, bearer, url, resp, n) ==
  [kind |-> kind, cycle |-> cycle, slept |-> sleeps, bearer |-> bearer,
   url |-> url, resp |-> resp, nrecords |-> n]

\* an exception leaves main(): control is at the except clause of the loop
Propagate(e) == exc' = e /\ pc' = "raised"

\* main(), steps 1 and 2: a new call of main() with fresh locals
Step1_TimeRange ==
  /\ pc = "loop" /\ cycle < MaxCycles
  /\ cycle' = cycle + 1
  /\ LET r == get_time_range(WINDOW_MINUTES, TIMEZONE)
     IN  /\ start_time' = r.start_str
         /\ end_time' = r.end_str
         /\ qc_list' = <<[field |-> "DAYTIME", op |-> "<=", value |-> r.end_str],
                         [field |-> "DAYTIME", op |-> ">", value |-> r.start_str]>>
  /\ now_read' = clock
  /\ prev_window' = [valid |-> cycle > 0, start |-> start_time, end |-> end_time,
                     now |-> now_read]
  /\ token' = 0 /\ query_url' = <<>> /\ result' = NoPayload
  /\ transformed_data' = <<>> /\ status_code' = 0
  /\ exc' = NoExc /\ calls' = <<>> /\ files' = {}
  /\ pc' = "token"
  /\ UNCHANGED <<config, clock, sleeps, issued>>

\* main(), step 3
Step3_GetAuthToken ==
  /\ pc = "token"
  /\ \E resp \in TokenResponses, d \in 0..MaxWork :
       LET fresh == issued + 1
           r == get_auth_token(resp, fresh)
       IN  /\ clock' = clock + d
           /\ issued' = IF resp.body = "token" THEN fresh ELSE issued
           /\ calls' = Append(calls, Call("token", 0, <<>>, resp, 0))
           /\ IF r.exc.cls # "none"
              THEN Propagate(r.exc) /\ UNCHANGED token
              ELSE token' = r.ret /\ pc' = "fetch" /\ UNCHANGED exc
  /\ UNCHANGED <<config, cycle, sleeps, start_time, end_time, now_read, qc_list,
                 query_url, result, transformed_data, status_code, files, prev_window>>

\* main(), steps 4 and 5
Step5_FetchData ==
  /\ pc = "fetch"
  /\ \E resp \in FetchResponses, payload \in SamplePayloads, d \in 0..MaxWork :
       LET url == build_query_url(qc_list)
           e == fetch_data(resp)
       IN  /\ resp.body # "json" => payload = NoPayload
           /\ clock' = clock + d
           /\ query_url' = url
           /\ calls' = Append(calls, Call("fetch", token, url, resp, 0))
           /\ IF e.cls # "none"
              THEN Propagate(e) /\ UNCHANGED result
              ELSE /\ result' = payload
                   /\ pc' = IF WRITE_TO_FILE THEN "write_raw" ELSE "transform"
                   /\ UNCHANGED exc
  /\ UNCHANGED <<config, cycle, sleeps, start_time, end_time, now_read, qc_list,
                 token, transformed_data, status_code, files, issued, prev_window>>

\* main(), "if WRITE_TO_FILE:" after step 5; opening or writing may fail
WriteRawFile ==
  /\ pc = "write_raw"
  /\ \E ok \in BOOLEAN :
       IF ok THEN files' = files \cup {"raw"} /\ pc' = "transform" /\ UNCHANGED exc
       ELSE Propagate(Raise("OSError")) /\ UNCHANGED files
  /\ UNCHANGED <<config, clock, cycle, sleeps, locals, calls, issued, prev_window>>

\* main(), step 6
Step6_Transform ==
  /\ pc = "transform"
  /\ LET r == transform_response(result, LOCAL_ZONE)
     IN  IF r.exc.cls # "none"
         THEN Propagate(r.exc) /\ UNCHANGED transformed_data
         ELSE /\ transformed_data' = r.ret
              /\ pc' = IF WRITE_TO_FILE THEN "write_transformed" ELSE "send"
              /\ UNCHANGED exc
  /\ UNCHANGED <<config, clock, cycle, sleeps, start_time, end_time, now_read,
                 qc_list, token, query_url, result, status_code, calls, files,
                 issued, prev_window>>

\* main(), "if WRITE_TO_FILE:" after step 6
WriteTransformedFile ==
  /\ pc = "write_transformed"
  /\ \E ok \in BOOLEAN :
       IF ok THEN files' = files \cup {"transformed"} /\ pc' = "send" /\ UNCHANGED exc
       ELSE Propagate(Raise("OSError")) /\ UNCHANGED files
  /\ UNCHANGED <<config, clock, cycle, sleeps, locals, calls, issued, prev_window>>

\* main(), step 7; main() then returns to the loop
Step7_SendToDatadog ==
  /\ pc = "send"
  /\ \E resp \in ForwardResponses, d \in 0..MaxWork :
       LET r == send_to_datadog(resp)
       IN  /\ clock' = clock + d
           /\ calls' = Append(calls, Call("forward", 0, <<>>, resp, Len(transformed_data)))
           /\ IF r.exc.cls # "none"
              THEN Propagate(r.exc) /\ UNCHANGED status_code
              ELSE status_code' = r.ret /\ pc' = "sleep" /\ UNCHANGED exc
  /\ UNCHANGED <<config, cycle, sleeps, start_time, end_time, now_read, qc_list,
                 token, query_url, result, transformed_data, files, issued, prev_window>>

\* variant: the except clause ends with "continue", skipping the sleep
ExceptClause_continue ==
  /\ pc = "raised"
  /\ pc' = IF caught_by_loop(exc) THEN "loop" ELSE "dead"
  /\ UNCHANGED <<config, clock, cycle, sleeps, locals, exc, calls, files, issued,
                 prev_window>>

\* "except Exception as e: logger.error(...)"; anything else ends the process
ExceptClause ==
  /\ pc = "raised"
  /\ pc' = IF caught_by_loop(exc) THEN "sleep" ELSE "dead"
  /\ UNCHANGED <<config, clock, cycle, sleeps, locals, exc, calls, files, issued,
                 prev_window>>

\* time.sleep(LOOP_INTERVAL_SECONDS), then the next "while True" iteration
Sleep ==
  /\ pc = "sleep"
  /\ clock' = clock + LOOP_INTERVAL_SECONDS * TicksPerSecond
  /\ sleeps' = sleeps + 1
  /\ pc' = "loop"
  /\ UNCHANGED <<config, cycle, locals, exc, calls, files, issued, prev_window>>

Next ==
  \/ Step1_TimeRange
  \/ Step3_GetAuthToken
  \/ Step5_FetchData
  \/ WriteRawFile
  \/ Step6_Transform
  \/ WriteTransformedFile
  \/ Step7_SendToDatadog
  \/ ExceptClause
  \/ Sleep

Spec == Init /\ [][Next]_vars

(* ======================= properties of the loop ======================== *)
CycleOver == pc \in {"raised", "sleep", "loop"}
Failed == exc.cls # "none"

\* the token endpoint's answer in this cycle was a failure: no response, a
\* 4xx/5xx status, or a body without an access token
TokenFailed ==
  /\ calls # <<>>
  /\ calls[1].kind = "token"
  /\ \/ calls[1].resp.neterr # "none"
     \/ calls[1].resp.status >= 400
     \/ calls[1].resp.body # "token"

\* C1: a failure raised by any step of main() takes control to the except
\* clause of the loop, which catches it; from there the cycle does nothing
\* more (no request, no file), the loop goes to the sleep step, and after
\* the sleep a new iteration starts.  The loop never ends on a failure.
C1_FailureAbandonsCycle ==
  [][ /\ (~Failed /\ Failed') => pc' = "raised"
      /\ pc = "raised" => (pc' = "sleep" /\ calls' = calls /\ files' = files
                           /\ cycle' = cycle)
      /\ (pc = "sleep" /\ Failed) => (pc' = "loop" /\ calls' = calls /\ files' = files
                                      /\ cycle' = cycle /\ sleeps' = sleeps + 1)
      /\ (pc = "loop" /\ Failed) => (pc' = "token" /\ cycle' = cycle + 1 /\ ~Failed')
      /\ pc' # "dead" ]_vars

\* a second cycle in a row has failed, was caught, and the sleep is done
C1_Witness ==
  /\ pc = "loop" /\ Failed /\ exc.cls = "OSError"
  /\ cycle = 2 /\ sleeps = 2 /\ prev_window.valid

\* C2: in a cycle whose token acquisition failed, the token request is the
\* only request made, no file is written, and the cycle ends through the
\* except clause into the sleep.
C2_TokenFailureAborts ==
  TokenFailed => /\ Len(calls) = 1
                 /\ files = {}
                 /\ token = 0
                 /\ Failed /\ CycleOver

C2_Witness ==
  /\ TokenFailed /\ calls[1].resp.status = 401 /\ WRITE_TO_FILE
  /\ pc = "loop" /\ sleeps = cycle

\* C3: whatever the ingestion call does, send_to_datadog returns a status
\* code: the response's own when there is a response, 500 when there is
\* none; the cycle then ends normally, not through the except clause.
C3_ForwardNeverRaises ==
  (Len(calls) = 3 /\ calls[3].kind = "forward") =>
     /\ ~Failed
     /\ pc \in {"sleep", "loop"}
     /\ status_code = IF calls[3].resp.neterr # "none" THEN 500
                      ELSE calls[3].resp.status

C3_Witness ==
  /\ Len(calls) = 3 /\ calls[3].kind = "forward"
  /\ calls[3].resp.neterr = "ConnectionError"
  /\ status_code = 500 /\ pc = "sleep"

\* C10: the requests of a cycle are, in order, at most one token request,
\* one fetch and one forward; the fetch follows a successful token request
\* of the same cycle and carries the token issued to it; the forward
\* follows a successful fetch and transformation of the same cycle; every
\* request of a cycle is made after the sleeps of all earlier cycles.
TokenSucceeded(c) ==
  c.kind = "token" /\ c.resp.neterr = "none" /\ c.resp.status < 400
                   /\ c.resp.body = "token"
FetchSucceeded(c) ==
  c.kind = "fetch" /\ c.resp.neterr = "none" /\ c.resp.status < 400
                   /\ c.resp.body = "json"

C10_RequestOrder ==
  /\ Len(calls) <= 3
  /\ \A i \in 1..Len(calls) :
       /\ calls[i].kind = <<"token", "fetch", "forward">>[i]
       /\ calls[i].cycle = cycle
       /\ calls[i].slept = cycle - 1
  /\ Len(calls) >= 2 => /\ TokenSucceeded(calls[1])
                        /\ calls[2].bearer = issued
                        /\ calls[2].bearer > 0
  /\ Len(calls) = 3 => /\ FetchSucceeded(calls[2])
                       /\ transform_response(result, LOCAL_ZONE).exc.cls = "none"
                       /\ calls[3].nrecords = Len(transformed_data)
                       /\ WRITE_TO_FILE => files = {"raw", "transformed"}

\* a second cycle forwards an empty batch with the second token
C10_Witness ==
  /\ Len(calls) = 3 /\ calls[3].nrecords = 0 /\ cycle = 2
  /\ calls[2].bearer = 2 /\ result = Payload(<<>>)

(* ------------------------- query windows ------------------------------- *)
\* x lies in the half-open window (w.start, w.end] of whole seconds
InWindow(x, w) == w.start < x /\ x <= w.end
ThisWindow == [start |-> start_time, end |-> end_time]
\* ticks between the clock readings of this cycle and the one before
Cadence == now_read - prev_window.now
WidthTicks == WINDOW_MINUTES * 60 * TicksPerSecond
LocalSecond(t) == (t + TIMEZONE * 3600 * TicksPerSecond) \div TicksPerSecond

\* the two conditions of a cycle: DAYTIME <= end, then DAYTIME > start, with
\* end the second of the cycle's clock reading and start = end - width
TwoConditions ==
  cycle >= 1 =>
    /\ qc_list = <<[field |-> "DAYTIME", op |-> "<=", value |-> end_time],
                   [field |-> "DAYTIME", op |-> ">", value |-> start_time]>>
    /\ end_time = LocalSecond(now_read)
    /\ start_time = end_time - WINDOW_MINUTES * 60
    /\ Len(calls) >= 2 =>
         calls[2].url = <<[name |-> "qa", cond |-> NoCond],
                          [name |-> "stripmeta", cond |-> NoCond],
                          [name |-> "qc", cond |-> qc_list[1]],
                          [name |-> "qc", cond |-> qc_list[2]]>>

\* C4 as claimed: with a cadence of at least the window width, every second
\* from the earlier window's start to the later window's end lies in exactly
\* one of the two windows (no overlap, no gap).
C4_NoOverlapNoGap ==
  /\ TwoConditions
  /\ (prev_window.valid /\ Cadence >= WidthTicks) =>
       \A x \in (prev_window.start + 1)..end_time :
         InWindow(x, prev_window) # InWindow(x, ThisWindow)

\* C4, amended: with a cadence of at least the window width no second lies
\* in both windows; with a cadence equal to the width the windows abut, so
\* every second lies in exactly one; with a cadence a second or more above
\* the width the seconds of (previous end, start] lie in no window.
C4_NoOverlapGapAboveWidth ==
  /\ TwoConditions
  /\ (prev_window.valid /\ Cadence >= WidthTicks) =>
       /\ \A x \in (prev_window.start + 1)..end_time :
            ~(InWindow(x, prev_window) /\ InWindow(x, ThisWindow))
       /\ start_time >= prev_window.end
  /\ (prev_window.valid /\ Cadence = WidthTicks) =>
       /\ start_time = prev_window.end
       /\ \A x \in (prev_window.start + 1)..end_time :
            InWindow(x, prev_window) # InWindow(x, ThisWindow)
  /\ (prev_window.valid /\ Cadence >= WidthTicks + TicksPerSecond) =>
       /\ start_time > prev_window.end
       /\ \A x \in (prev_window.end + 1)..start_time :
            ~InWindow(x, prev_window) /\ ~InWindow(x, ThisWindow)

\* a cycle whose cadence exceeds the width: the query has gone out with a
\* window that starts after the previous one ended
C4_Witness ==
  /\ prev_window.valid /\ Cadence >= WidthTicks + TicksPerSecond
  /\ start_time > prev_window.end
  /\ Len(calls) >= 2 /\ calls[2].kind = "fetch"

(* ============== get_time_range on its own (SpecWindow) ================= *)
MaxClock == 7
WindowWidths == -1..2
WindowZones == {-5, 0, 8}

InitWindow ==
  /\ WINDOW_MINUTES \in WindowWidths
  /\ TIMEZONE \in WindowZones
  /\ clock \in 0..MaxClock
  /\ LOOP_INTERVAL_SECONDS = 60 /\ WRITE_TO_FILE = FALSE /\ LOCAL_ZONE = 0
  /\ pc = "w_call" /\ cycle = 0 /\ sleeps = 0
  /\ InitLocals
  /\ exc = NoExc /\ calls = <<>> /\ files = {} /\ issued = 0
  /\ prev_window = [valid |-> FALSE, start |-> 0, end |-> 0, now |-> 0]

Call_get_time_range ==
  /\ pc = "w_call"
  /\ LET r == get_time_range(WINDOW_MINUTES, TIMEZONE)
     IN  start_time' = r.start_str /\ end_time' = r.end_str
  /\ now_read' = clock
  /\ pc' = "w_done"
  /\ UNCHANGED <<config, clock, cycle, sleeps, qc_list, token, query_url, result,
                 transformed_data, status_code, exc, calls, files, issued, prev_window>>

NextWindow == Call_get_time_range

SpecWindow == InitWindow /\ [][NextWindow]_vars

\* end is the second (of the configured offset) that holds the instant read,
\* start is w minutes before it
WindowOfInstant ==
  /\ end_time * TicksPerSecond <= now_read + TIMEZONE * 3600 * TicksPerSecond
  /\ now_read + TIMEZONE * 3600 * TicksPerSecond < (end_time + 1) * TicksPerSecond
  /\ start_time = end_time - 60 * WINDOW_MINUTES

\* C8 as claimed: for every configured integer width and every instant,
\* end = t, start = t - w minutes, and start < end.
C8_StartBeforeEndAlways ==
  pc = "w_done" => WindowOfInstant /\ start_time < end_time

\* C8, amended: end = t and start = t - w minutes for every integer width;
\* start < end holds exactly for the positive widths.
C8_StartBeforeEndIffPositive ==
  pc = "w_done" => /\ WindowOfInstant
                   /\ (start_time < end_time) <=> (WINDOW_MINUTES >= 1)
                   /\ WINDOW_MINUTES >= 1 => end_time - start_time >= 60

C8_Witness ==
  /\ pc = "w_done" /\ WINDOW_MINUTES = 2 /\ TIMEZONE = 8 /\ now_read = 3
  /\ end_time = 28801 /\ start_time = 28681

(* ============ transform_response on its own (SpecTransform) ============ *)
MaxTokens == 4
MaxMissing == 2
MaxRecords == 2

\* DOC_NUMBER texts: up to MaxTokens pieces, each "DOC:", "DO", "C:" or "1"
DocTokens == {DOC_PREFIX, <<"D", "O">>, <<"C", ":">>, <<"1">>}
RECURSIVE DocStrings(_)
DocStrings(n) ==
  IF n = 0 THEN {<<>>}
  ELSE LET shorter == DocStrings(n - 1)
       IN  shorter \cup {s \o t : s \in shorter, t \in DocTokens}

DocValues ==
  {Str(s) : s \in DocStrings(MaxTokens)}
    \cup {Str(<<"D", "O", "C", ":", "D", "O", "D", "O", "C", ":", "C", ":", "1">>),
          None, Num(5), WellFormedTs}

\* timestamp datavalues: well-formed, out-of-range month or day, other text,
\* empty text, null, numbers
TsValues == {WellFormedTs, Dts(<<2024, 2, 29, 23, 59, 59>>),
             Dts(<<2024, 13, 1, 0, 0, 0>>), Dts(<<2023, 2, 29, 0, 0, 0>>),
             Str(<<"x">>), Str(<<>>), None, Num(0), Num(5)}

\* up to MaxMissing fields
RECURSIVE SetsUpTo(_, _)
SetsUpTo(S, n) ==
  IF n = 0 THEN {{}}
  ELSE LET smaller == SetsUpTo(S, n - 1)
       IN  smaller \cup {x \cup {e} : x \in smaller, e \in S}
MissingSets == SetsUpTo(FieldNames, MaxMissing)

\* of the missing fields, some have no entry and the others no datavalue
MissingSplits ==
  UNION {{[absent |-> a, nodv |-> m \ a] : a \in SUBSET m} : m \in MissingSets}
    \cup {[absent |-> FieldNames, nodv |-> {}], [absent |-> {}, nodv |-> FieldNames]}

RecordsByPresence ==
  {RawRecord(p.absent, p.nodv, 7, Str(DOC_PREFIX \o <<"1">>), AllTs(WellFormedTs)) :
     p \in MissingSplits}
RecordsByDoc ==
  {RawRecord({}, {}, 7, d, AllTs(WellFormedTs)) : d \in DocValues}
RecordsByTimestamps ==
  {RawRecord({}, {}, 7, Str(<<"1">>), ts) : ts \in [TimestampKeys -> TsValues]}
NoAttributes == [has_attributes |-> FALSE, attributes |-> [k \in FieldNames |-> Absent]]

SampleRecords ==
  {GoodRecord(7), GoodRecord(8), NoAttributes,
   RawRecord({}, {}, 9, Str(<<"1">>), AllTs(Dts(<<2024, 13, 1, 0, 0, 0>>)))}

RECURSIVE SeqsUpTo(_, _)
SeqsUpTo(S, n) ==
  IF n = 0 THEN {<<>>}
  ELSE LET shorter == SeqsUpTo(S, n - 1)
       IN  shorter \cup {Append(q, x) : q \in shorter, x \in S}

TransformInputs ==
  {Payload(<<r>>) : r \in RecordsByPresence \cup RecordsByDoc \cup RecordsByTimestamps}
    \cup {Payload(q) : q \in SeqsUpTo(SampleRecords, MaxRecords)}
    \cup {[objects |-> o, journal |-> j, records |-> <<>>] :
            o \in {"absent", "None", "dict"}, j \in {"absent", "None"}}

InitTransform ==
  /\ result \in TransformInputs
  /\ LOCAL_ZONE \in {0, 8}
  /\ WINDOW_MINUTES = 1 /\ LOOP_INTERVAL_SECONDS = 60 /\ TIMEZONE = 8
  /\ WRITE_TO_FILE = FALSE
  /\ clock = 0 /\ pc = "t_call" /\ cycle = 0 /\ sleeps = 0
  /\ start_time = 0 /\ end_time = 0 /\ now_read = 0 /\ qc_list = <<>>
  /\ token = 0 /\ query_url = <<>> /\ transformed_data = <<>> /\ status_code = 0
  /\ exc = NoExc /\ calls = <<>> /\ files = {} /\ issued = 0
  /\ prev_window = [valid |-> FALSE, start |-> 0, end |-> 0, now |-> 0]

Call_transform_response ==
  /\ pc = "t_call"
  /\ LET r == transform_response(result, LOCAL_ZONE)
     IN  IF r.exc.cls # "none"
         THEN exc' = r.exc /\ pc' = "t_raised" /\ UNCHANGED transformed_data
         ELSE transformed_data' = r.ret /\ pc' = "t_returned" /\ UNCHANGED exc
  /\ UNCHANGED <<config, clock, cycle, sleeps, start_time, end_time, now_read,
                 qc_list, token, query_url, result, status_code, calls, files,
                 issued, prev_window>>

NextTransform == Call_transform_response

SpecTransform == InitTransform /\ [][NextTransform]_vars

(* ------------------ properties of transform_response ------------------- *)
TransformDone == pc \in {"t_returned", "t_raised"}
\* the payload holds a record list, or none at all (no null in its place)
HasRecordList == result.objects # "None" /\ result.journal # "None"
RawRecords == IF result.objects = "dict" /\ result.journal = "list"
              THEN result.records ELSE <<>>
RawEntry(i, k) == IF RawRecords[i].has_attributes THEN RawRecords[i].attributes[k]
                  ELSE Absent
\* the text has the shape YYYY-MM-DDTHH:MM:SS and names a real date and time
MatchesPattern(v) ==
  /\ v.t = "dts" /\ Len(v.f) = 6
  /\ v.f[1] \in 1..9999 /\ v.f[2] \in 1..12
  /\ v.f[3] \in 1..DaysInMonth(v.f[1], v.f[2])
  /\ v.f[4] \in 0..23 /\ v.f[5] \in 0..59 /\ v.f[6] \in 0..59
StartsWith(chars, p) == Len(chars) >= Len(p) /\ SubSeq(chars, 1, Len(p)) = p
\* DOC_NUMBER is text, or has no datavalue
DocIsText == \A i \in 1..Len(RawRecords) :
               RawEntry(i, "DOC_NUMBER").kind = "dv" => IsStr(RawEntry(i, "DOC_NUMBER").dv)
\* every timestamp is well-formed, falsy, or has no datavalue
TimestampsClean ==
  \A i \in 1..Len(RawRecords), k \in TimestampKeys :
    RawEntry(i, k).kind = "dv" =>
      MatchesPattern(RawEntry(i, k).dv) \/ ~Truthy(RawEntry(i, k).dv)

\* C5: a record is produced for every raw record whatever its timestamp
\* fields hold: a timestamp that is absent or does not match
\* YYYY-MM-DDTHH:MM:SS leaves its key out of the record, a well-formed one
\* gives an integer under its key.
C5_MalformedTimestampOmitted ==
  (TransformDone /\ HasRecordList /\ DocIsText) =>
     /\ pc = "t_returned"
     /\ Len(transformed_data) = Len(RawRecords)
     /\ \A i \in 1..Len(RawRecords), k \in TimestampKeys :
          IF RawEntry(i, k).kind = "dv" /\ MatchesPattern(RawEntry(i, k).dv)
          THEN k \in DOMAIN transformed_data[i] /\ transformed_data[i][k].t = "int"
          ELSE k \notin DOMAIN transformed_data[i]

\* C6: when the raw DOC_NUMBER begins with "DOC:", the DOC_NUMBER of the
\* transformed record does not.
C6_NoLeadingDocPrefix ==
  pc = "t_returned" =>
    \A i \in 1..Len(RawRecords) :
      LET e == RawEntry(i, "DOC_NUMBER")
      IN  (e.kind = "dv" /\ e.dv.t = "str" /\ StartsWith(e.dv.s, <<"D", "O", "C", ":">>))
            => ~StartsWith(transformed_data[i]["DOC_NUMBER"].s, <<"D", "O", "C", ":">>)

\* C7: for every raw record, whichever fields are absent, the call does not
\* raise, and the record has the 12 scalar keys and the two tags, a
\* timestamp key only where the raw field is present, null for an absent
\* scalar and the empty string for an absent DOC_NUMBER.
C7_ExactKeySet ==
  (TransformDone /\ HasRecordList) =>
     /\ pc = "t_returned"
     /\ Len(transformed_data) = Len(RawRecords)
     /\ \A i \in 1..Len(RawRecords) :
          /\ ScalarKeys \cup TagKeys \subseteq DOMAIN transformed_data[i]
          /\ DOMAIN transformed_data[i] \subseteq ScalarKeys \cup TagKeys \cup TimestampKeys
          /\ \A k \in TimestampKeys :
               k \in DOMAIN transformed_data[i] => RawEntry(i, k).kind = "dv"
          /\ \A k \in ScalarKeys :
               RawEntry(i, k).kind # "dv" =>
                 transformed_data[i][k] = IF k = "DOC_NUMBER" THEN Str(<<>>) ELSE None

\* C9: a payload without a record list, or with an empty one, gives an empty
\* batch; a payload of N records gives N records, the i-th made from the
\* i-th raw record, each with the hostname and service tags.
C9_CountAndOrder ==
  (TransformDone /\ HasRecordList) =>
     /\ pc = "t_returned"
     /\ Len(transformed_data) = Len(RawRecords)
     /\ \A i \in 1..Len(RawRecords) :
          /\ transformed_data[i]["DATADOG_JOURNAL_ID"] =
               (IF RawEntry(i, "DATADOG_JOURNAL_ID").kind = "dv"
                THEN RawEntry(i, "DATADOG_JOURNAL_ID").dv ELSE None)
          /\ transformed_data[i]["hostname"] = Str(<<"h", "1">>)
          /\ transformed_data[i]["service"] = Str(<<"s", "v", "c">>)

====
